---- MODULE Spec2Model ----
(***************************************************************************)
(* Model of the AverageTrueRange indicator                                 *)
(* (nautilus_core/indicators/src/volatility/atr.rs) together with the      *)
(* moving average it owns.                                                 *)
(*                                                                         *)
(* f64 quantities are represented exactly, as normalised rationals         *)
(* [num, den] with den > 0 and gcd(num, den) = 1, so that equality of two  *)
(* records is numeric equality.  Inputs are drawn from small whole numbers;*)
(* on those the f64 operations the code performs (subtraction, max, min,   *)
(* comparison, the mean of at most a handful of small integers) are        *)
(* deterministic functions of the mathematical values.                     *)
(***************************************************************************)
EXTENDS Integers, Sequences, FiniteSets, TLC

\* ---------------------------------------------------------------- bounds
MaxPeriod == 2
MaxPrice == 1
MaxFloor == 1
MaxCount == 3
MaxLogged == 2

\* ---------------------------------------------------------- f64 arithmetic
Abs(n) == IF n < 0 THEN -n ELSE n

RECURSIVE GCD(_, _)
GCD(a, b) == IF b = 0 THEN a ELSE GCD(b, a % b)

Rat(n, d) ==
    LET s == IF d < 0 THEN -1 ELSE 1
        g == GCD(Abs(n), Abs(d))
    IN  [num |-> (s * n) \div g, den |-> (s * d) \div g]

F64(n) == Rat(n, 1)

F64Add(a, b) == Rat(a.num * b.den + b.num * a.den, a.den * b.den)

F64Sub(a, b) == Rat(a.num * b.den - b.num * a.den, a.den * b.den)

F64Mul(a, b) == Rat(a.num * b.num, a.den * b.den)

F64Div(a, b) == Rat(a.num * b.den, a.den * b.num)

F64Lt(a, b) == a.num * b.den < b.num * a.den

F64Le(a, b) == a.num * b.den <= b.num * a.den

F64Max(a, b) == IF F64Lt(a, b) THEN b ELSE a

F64Min(a, b) == IF F64Lt(b, a) THEN b ELSE a

RECURSIVE F64Sum(_)
F64Sum(s) == IF s = <<>> THEN F64(0) ELSE F64Add(Head(s), F64Sum(Tail(s)))

\* ------------------------------------------------------------ Option<T>
None == [some |-> FALSE]

Some(v) == [some |-> TRUE, val |-> v]

OptionOf(S) == {None} \cup {Some(v) : v \in S}

UnwrapOr(opt, default) == IF opt.some THEN opt.val ELSE default

\* -------------------------------------------------------- moving average
MovingAverageType == {"Simple", "Exponential"}

\* MovingAverageFactory::create(ma_type, period): a moving average of the
\* variant named by the tag, with no accumulated state.
MovingAverageFactoryCreate(ma_type, period) ==
    [kind           |-> ma_type,
     period         |-> period,
     value          |-> F64(0),
     count          |-> 0,
     inputs         |-> <<>>,
     is_initialized |-> FALSE]

\* Simple variant: the mean of the last `period` inputs.
SimpleUpdateRaw(ma, x) ==
    LET kept   == IF Len(ma.inputs) >= ma.period /\ ma.inputs # <<>>
                  THEN Tail(ma.inputs) ELSE ma.inputs
        inputs == Append(kept, x)
        n      == Len(inputs)
    IN  [ma EXCEPT !.inputs = inputs,
                   !.count = n,
                   !.value = F64Div(F64Sum(inputs), F64(n)),
                   !.is_initialized = ma.is_initialized \/ n >= ma.period]

\* Exponential variant: alpha = 2 / (period + 1), seeded by the first input.
ExponentialUpdateRaw(ma, x) ==
    LET alpha == Rat(2, ma.period + 1)
        v     == IF ma.count = 0 THEN x
                 ELSE F64Add(F64Mul(alpha, x),
                             F64Mul(F64Sub(F64(1), alpha), ma.value))
    IN  [ma EXCEPT !.value = v,
                   !.count = IF ma.count < ma.period THEN ma.count + 1 ELSE ma.count,
                   !.is_initialized = ma.is_initialized \/ ma.count + 1 >= ma.period]

\* MovingAverage::update_raw, dispatched on the variant.
MaUpdateRaw(ma, x) ==
    IF ma.kind = "Simple" THEN SimpleUpdateRaw(ma, x) ELSE ExponentialUpdateRaw(ma, x)

\* MovingAverage::value
MaValue(ma) == ma.value

\* ------------------------------------------------------ AverageTrueRange
\* AverageTrueRange::new: Result<Self>; the code has a single Ok(...) exit.
new(period, ma_type, use_previous, value_floor) ==
    [ok   |-> TRUE,
     self |-> [period          |-> period,
               ma_type         |-> UnwrapOr(ma_type, "Simple"),
               use_previous    |-> UnwrapOr(use_previous, TRUE),
               value_floor     |-> UnwrapOr(value_floor, F64(0)),
               value           |-> F64(0),
               count           |-> 0,
               _previous_close |-> F64(0),
               _ma             |-> MovingAverageFactoryCreate("Simple", period),
               has_inputs      |-> FALSE,
               is_initialized  |-> FALSE]]

\* Variant of _floor_value that writes the floor into the moving average too.
_floor_value_into_ma(self) ==
    IF self.value_floor = F64(0) \/ F64Lt(self.value_floor, MaValue(self._ma))
    THEN [self EXCEPT !.value = MaValue(self._ma)]
    ELSE [self EXCEPT !.value = self.value_floor, !._ma.value = self.value_floor]

\* Variant of _floor_value with the comparison reversed (the smaller of the
\* moving average and the floor is reported).
_floor_value_reversed(self) ==
    IF self.value_floor = F64(0) \/ F64Lt(MaValue(self._ma), self.value_floor)
    THEN [self EXCEPT !.value = MaValue(self._ma)]
    ELSE [self EXCEPT !.value = self.value_floor]

\* Variant of _floor_value that never pins the value to the floor.
_floor_value_unfloored(self) == [self EXCEPT !.value = MaValue(self._ma)]

_floor_value(self) ==
    IF self.value_floor = F64(0) \/ F64Lt(self.value_floor, MaValue(self._ma))
    THEN [self EXCEPT !.value = MaValue(self._ma)]
    ELSE [self EXCEPT !.value = self.value_floor]

\* Variant of increment_count that stops counting once initialized.
increment_count_until_initialized(self) ==
    IF ~self.is_initialized
    THEN [self EXCEPT !.count = self.count + 1,
                      !.has_inputs = TRUE,
                      !.is_initialized = (self.count + 1 >= self.period)]
    ELSE self

\* Variant of increment_count that sets has_inputs only on initialization.
increment_count_inputs_when_initialized(self) ==
    LET s1 == [self EXCEPT !.count = self.count + 1]
    IN  IF ~s1.is_initialized /\ s1.count >= s1.period
        THEN [s1 EXCEPT !.has_inputs = TRUE, !.is_initialized = TRUE]
        ELSE s1

\* Variant of increment_count that initializes one call late (> for >=).
increment_count_late(self) ==
    LET s1 == [self EXCEPT !.count = self.count + 1]
    IN  IF ~s1.is_initialized
        THEN [s1 EXCEPT !.has_inputs = TRUE,
                        !.is_initialized = (s1.count > s1.period)]
        ELSE s1

increment_count(self) ==
    LET s1 == [self EXCEPT !.count = self.count + 1]
    IN  IF ~s1.is_initialized
        THEN [s1 EXCEPT !.has_inputs = TRUE,
                        !.is_initialized = (s1.count >= s1.period)]
        ELSE s1

\* Variant of TrueRange that always uses the current close.
TrueRange_own_close(self, high, low, close) ==
    IF self.use_previous
    THEN F64Sub(F64Max(close, high), F64Min(low, close))
    ELSE F64Sub(high, low)

\* Variant of TrueRange that ignores use_previous.
TrueRange_always_previous(self, high, low, close) ==
    LET pc == IF ~self.has_inputs THEN close ELSE self._previous_close
    IN  F64Sub(F64Max(pc, high), F64Min(low, pc))

\* Variant of TrueRange that does not seed the previous close on the first
\* update.
TrueRange_unseeded(self, high, low, close) ==
    IF self.use_previous
    THEN F64Sub(F64Max(self._previous_close, high), F64Min(low, self._previous_close))
    ELSE F64Sub(high, low)

\* Variant of TrueRange with the operands of the subtraction exchanged.
TrueRange_reversed(self, high, low, close) ==
    IF self.use_previous
    THEN LET pc == IF ~self.has_inputs THEN close ELSE self._previous_close
         IN  F64Sub(F64Min(low, pc), F64Max(pc, high))
    ELSE F64Sub(low, high)

\* The scalar update_raw feeds to the moving average.
TrueRange(self, high, low, close) ==
    IF self.use_previous
    THEN LET pc == IF ~self.has_inputs THEN close ELSE self._previous_close
         IN  F64Sub(F64Max(pc, high), F64Min(low, pc))
    ELSE F64Sub(high, low)

\* Variant of update_raw that skips the floor policy.
update_raw_no_floor(self, high, low, close) ==
    LET fed == [self EXCEPT
                  !._ma = MaUpdateRaw(self._ma, TrueRange(self, high, low, close)),
                  !._previous_close = IF self.use_previous THEN close
                                      ELSE self._previous_close]
    IN  increment_count(fed)

update_raw(self, high, low, close) ==
    LET fed == [self EXCEPT
                  !._ma = MaUpdateRaw(self._ma, TrueRange(self, high, low, close)),
                  !._previous_close = IF self.use_previous THEN close
                                      ELSE self._previous_close]
    IN  increment_count(_floor_value(fed))

\* (&bar.high).into(): the numeric value of a bar's price as f64.
PriceToF64(p) == F64(p)

handle_bar(self, bar) ==
    update_raw(self, PriceToF64(bar.high), PriceToF64(bar.low), PriceToF64(bar.close))

\* Variant of handle_quote_tick that counts the tick as an update.
handle_quote_tick_counted(self, tick) == increment_count(self)

handle_quote_tick(self, tick) == self

handle_trade_tick(self, tick) == self

\* Variant of reset that leaves has_inputs set.
reset_keeps_has_inputs(self) ==
    [self EXCEPT !._previous_close = F64(0),
                 !.value = F64(0),
                 !.count = 0,
                 !.is_initialized = FALSE]

\* Variant of reset that leaves is_initialized set.
reset_keeps_is_initialized(self) ==
    [self EXCEPT !._previous_close = F64(0),
                 !.value = F64(0),
                 !.count = 0,
                 !.has_inputs = FALSE]

\* Variant of reset that leaves _previous_close untouched.
reset_keeps_previous_close(self) ==
    [self EXCEPT !.value = F64(0),
                 !.count = 0,
                 !.has_inputs = FALSE,
                 !.is_initialized = FALSE]

reset(self) ==
    [self EXCEPT !._previous_close = F64(0),
                 !.value = F64(0),
                 !.count = 0,
                 !.has_inputs = FALSE,
                 !.is_initialized = FALSE]

\* ------------------------------------------------------------- inputs
Periods == 0..MaxPeriod

\* value_floor: 0.0 (no floor) and positive multiples of one half.
Floors == {Rat(f, 2) : f \in 0..MaxFloor}

Prices == 0..MaxPrice

F64Inputs == {F64(p) : p \in Prices}

Bars == [high : Prices, low : Prices, close : Prices]

QuoteTicks == {[bid |-> p, ask |-> p + 1] : p \in Prices}

TradeTicks == [price : Prices]

\* --------------------------------------------------------------- state
\*  new_ok   whether AverageTrueRange::new returned Ok
\*  atr      the instance under observation
\*  fresh    a second instance, constructed with atr's configuration at
\*           construction and again at each reset, and fed the same updates
\*  last_op  the kind of operation that produced the current state: "new",
\*           "update" (update_raw, handle_bar), "tick" (handle_quote_tick,
\*           handle_trade_tick) or "reset"
\*  was_reset  whether reset() has been called
\*  calls    number of update_raw / handle_bar calls since construction or
\*           the last reset()
\*  twin     a third instance, constructed like atr except for value_floor
\*           and given the same calls (followed in SpecTwin only)
\*  log      what the caller passed in the current epoch (followed in
\*           SpecInputs only): the last update's (high, low, close), the
\*           close passed to the update before it, and the sum of the
\*           true ranges of the epoch's updates computed from the passed
\*           values alone
VARIABLES new_ok, atr, fresh, last_op, was_reset, calls, twin, log

vars == <<new_ok, atr, fresh, last_op, was_reset, calls, twin, log>>

NoLog == [last |-> <<>>, prev_close |-> <<>>, range_sum |-> F64(0)]

\* The caller's record after passing (high, low, close): the true range is
\* taken against the close passed to the previous update of the epoch, or
\* against this update's own close when it is the first.
Logged(l, high, low, close) ==
    LET c == IF l.last = <<>> THEN close ELSE l.last[1].close
    IN  [last       |-> <<[high |-> high, low |-> low, close |-> close]>>,
         prev_close |-> IF l.last = <<>> THEN <<>> ELSE <<l.last[1].close>>,
         range_sum  |-> F64Add(l.range_sum, F64Sub(F64Max(c, high), F64Min(low, c)))]

Init ==
    \E period \in Periods, ma_type \in OptionOf(MovingAverageType),
       use_previous \in OptionOf(BOOLEAN), value_floor \in OptionOf(Floors) :
        LET r == new(period, ma_type, use_previous, value_floor)
        IN  /\ new_ok = r.ok
            /\ atr = r.self
            /\ fresh = r.self
            /\ last_op = "new"
            /\ was_reset = FALSE
            /\ calls = 0
            /\ twin = r.self
            /\ log = NoLog

UpdateRaw ==
    /\ new_ok
    /\ atr.count < MaxCount
    /\ \E high \in F64Inputs, low \in F64Inputs, close \in F64Inputs :
        /\ atr' = update_raw(atr, high, low, close)
        /\ fresh' = update_raw(fresh, high, low, close)
    /\ last_op' = "update"
    /\ calls' = calls + 1
    /\ UNCHANGED <<new_ok, was_reset, twin, log>>

HandleBar ==
    /\ new_ok
    /\ atr.count < MaxCount
    /\ \E bar \in Bars :
        /\ atr' = handle_bar(atr, bar)
        /\ fresh' = handle_bar(fresh, bar)
    /\ last_op' = "update"
    /\ calls' = calls + 1
    /\ UNCHANGED <<new_ok, was_reset, twin, log>>

HandleQuoteTick ==
    /\ new_ok
    /\ \E tick \in QuoteTicks :
        /\ atr' = handle_quote_tick(atr, tick)
        /\ fresh' = handle_quote_tick(fresh, tick)
        /\ twin' = handle_quote_tick(twin, tick)
    /\ last_op' = "tick"
    /\ UNCHANGED <<new_ok, was_reset, calls, log>>

HandleTradeTick ==
    /\ new_ok
    /\ \E tick \in TradeTicks :
        /\ atr' = handle_trade_tick(atr, tick)
        /\ fresh' = handle_trade_tick(fresh, tick)
        /\ twin' = handle_trade_tick(twin, tick)
    /\ last_op' = "tick"
    /\ UNCHANGED <<new_ok, was_reset, calls, log>>

Reset ==
    /\ new_ok
    /\ atr' = reset(atr)
    /\ fresh' = new(atr.period, Some(atr.ma_type), Some(atr.use_previous),
                    Some(atr.value_floor)).self
    /\ last_op' = "reset"
    /\ was_reset' = TRUE
    /\ calls' = 0
    /\ UNCHANGED <<new_ok, twin, log>>

Next == UpdateRaw \/ HandleBar \/ HandleQuoteTick \/ HandleTradeTick \/ Reset

Spec == Init /\ [][Next]_vars

\* ------------------------------------------------ two instances, one floor apart
\* The same operations on atr and on twin, which differs from atr in
\* value_floor only (atr is the one with the smaller floor).
TwinInit ==
    \E period \in Periods, ma_type \in OptionOf(MovingAverageType),
       use_previous \in OptionOf(BOOLEAN), value_floor \in OptionOf(Floors),
       other_floor \in Floors :
        LET r == new(period, ma_type, use_previous, value_floor)
            t == new(period, ma_type, use_previous, Some(other_floor))
        IN  /\ F64Lt(r.self.value_floor, other_floor)
            /\ new_ok = (r.ok /\ t.ok)
            /\ atr = r.self
            /\ fresh = r.self
            /\ last_op = "new"
            /\ was_reset = FALSE
            /\ calls = 0
            /\ twin = t.self
            /\ log = NoLog

TwinUpdateRaw ==
    /\ new_ok
    /\ atr.count < MaxCount
    /\ \E high \in F64Inputs, low \in F64Inputs, close \in F64Inputs :
        /\ atr' = update_raw(atr, high, low, close)
        /\ twin' = update_raw(twin, high, low, close)
    /\ last_op' = "update"
    /\ calls' = calls + 1
    /\ UNCHANGED <<new_ok, was_reset, fresh, log>>

TwinHandleBar ==
    /\ new_ok
    /\ atr.count < MaxCount
    /\ \E bar \in Bars :
        /\ atr' = handle_bar(atr, bar)
        /\ twin' = handle_bar(twin, bar)
    /\ last_op' = "update"
    /\ calls' = calls + 1
    /\ UNCHANGED <<new_ok, was_reset, fresh, log>>

TwinReset ==
    /\ new_ok
    /\ atr' = reset(atr)
    /\ twin' = reset(twin)
    /\ last_op' = "reset"
    /\ was_reset' = TRUE
    /\ calls' = 0
    /\ UNCHANGED <<new_ok, fresh, log>>

TwinNext ==
    TwinUpdateRaw \/ TwinHandleBar \/ HandleQuoteTick \/ HandleTradeTick \/ TwinReset

SpecTwin == TwinInit /\ [][TwinNext]_vars

\* ------------------------------------------------ the caller's inputs on record
\* A caller of update_raw and reset(), with what it passed kept in log
\* (handle_bar only delegates to update_raw, and the tick handlers change
\* nothing).
LoggedUpdateRaw ==
    /\ new_ok
    /\ atr.count < MaxLogged
    /\ \E high \in F64Inputs, low \in F64Inputs, close \in F64Inputs :
        /\ atr' = update_raw(atr, high, low, close)
        /\ log' = Logged(log, high, low, close)
    /\ last_op' = "update"
    /\ calls' = calls + 1
    /\ UNCHANGED <<new_ok, was_reset, fresh, twin>>

LoggedReset ==
    /\ new_ok
    /\ atr' = reset(atr)
    /\ log' = NoLog
    /\ last_op' = "reset"
    /\ was_reset' = TRUE
    /\ calls' = 0
    /\ UNCHANGED <<new_ok, fresh, twin>>

LoggedNext == LoggedUpdateRaw \/ LoggedReset

SpecInputs == Init /\ [][LoggedNext]_vars

\* ------------------------------------------------ well-formed bars only
\* The same operations, called with high >= low on every update.
OrderedUpdateRaw ==
    /\ new_ok
    /\ atr.count < MaxCount
    /\ \E high \in F64Inputs, low \in F64Inputs, close \in F64Inputs :
        /\ F64Le(low, high)
        /\ atr' = update_raw(atr, high, low, close)
    /\ last_op' = "update"
    /\ calls' = calls + 1
    /\ UNCHANGED <<new_ok, was_reset, fresh, twin, log>>

OrderedHandleBar ==
    /\ new_ok
    /\ atr.count < MaxCount
    /\ \E bar \in Bars :
        /\ bar.low <= bar.high
        /\ atr' = handle_bar(atr, bar)
    /\ last_op' = "update"
    /\ calls' = calls + 1
    /\ UNCHANGED <<new_ok, was_reset, fresh, twin, log>>

OrderedNext ==
    OrderedUpdateRaw \/ OrderedHandleBar \/ HandleQuoteTick \/ HandleTradeTick
        \/ Reset

SpecOrdered == Init /\ [][OrderedNext]_vars

\* ============================================================== claims
IsUpdate(op) == op = "update"

IsTick(op) == op = "tick"

\* ---------------------------------------------------------------- C1
\* C1: an instance that received updates and was then reset() shows, while
\* being fed a sequence of updates, the same value, count and
\* is_initialized after each update as a freshly constructed instance with
\* the same configuration fed the same sequence.
C1_ResetReproducesFresh ==
    /\ atr.value = fresh.value
    /\ atr.count = fresh.count
    /\ atr.is_initialized = fresh.is_initialized

\* ---------------------------------------------------------------- C2
\* C2: for period >= 1, counting update calls from construction or the last
\* reset(), is_initialized is false after each of the first period-1 calls
\* and true after the period-th and every later call.
C2_InitializedFromPeriodthCall ==
    atr.period >= 1 => (atr.is_initialized <=> calls >= atr.period)

C2_Witness ==
    /\ was_reset
    /\ IsUpdate(last_op)
    /\ atr.period = 2
    /\ calls = 2
    /\ atr.is_initialized

\* ---------------------------------------------------------------- C3
\* C3: with value_floor = F > 0, value >= F holds in the state immediately
\* after every update_raw and handle_bar call.
C3_FlooredAfterUpdate ==
    (IsUpdate(last_op) /\ F64Lt(F64(0), atr.value_floor))
        => F64Le(atr.value_floor, atr.value)

C3_Witness ==
    /\ IsUpdate(last_op)
    /\ F64Lt(F64(0), atr.value_floor)
    /\ F64Lt(MaValue(atr._ma), atr.value_floor)
    /\ atr.value = atr.value_floor
    /\ ~atr.use_previous

\* ---------------------------------------------------------------- C4
\* C4: AverageTrueRange::new called with period == 0 returns an error and
\* yields no usable instance.
C4_PeriodZeroRejected == atr.period = 0 => ~new_ok

\* ---------------------------------------------------------------- C5
\* C5: the owned moving average is of the variant named by ma_type and has
\* the given period.
C5_InnerMaOfConfiguredType ==
    /\ atr._ma.kind = atr.ma_type
    /\ atr._ma.period = atr.period

\* ---------------------------------------------------------------- C6
\* C6: handle_quote_tick and handle_trade_tick leave all state of the
\* instance (value, count, is_initialized, has_inputs, previous_close and
\* the inner moving average) unchanged.
C6_TicksChangeNothing == [][IsTick(last_op') => atr' = atr]_vars

C6_Witness ==
    /\ IsTick(last_op)
    /\ atr.is_initialized
    /\ atr._ma.inputs # <<>>
    /\ atr.value # F64(0)

\* ---------------------------------------------------------------- C7
\* C7: reset() sets previous_close = 0, value = 0, count = 0,
\* has_inputs = false and is_initialized = false, and leaves period,
\* ma_type, use_previous and value_floor as they were (no operation ever
\* changes them after construction).
C7_ResetZeroesStateKeepsConfig ==
    [][/\ last_op' = "reset" =>
            /\ atr'._previous_close = F64(0)
            /\ atr'.value = F64(0)
            /\ atr'.count = 0
            /\ ~atr'.has_inputs
            /\ ~atr'.is_initialized
       /\ atr'.period = atr.period
       /\ atr'.ma_type = atr.ma_type
       /\ atr'.use_previous = atr.use_previous
       /\ atr'.value_floor = atr.value_floor]_vars

C7_Witness ==
    /\ last_op = "reset"
    /\ atr.use_previous
    /\ atr._ma.count = 2
    /\ atr.value_floor # F64(0)
    /\ atr.period = 2

\* ---------------------------------------------------------------- C8
\* C8: in every reachable state, is_initialized implies count >= period and
\* has_inputs.
C8_InitializedImpliesCountAndInputs ==
    atr.is_initialized => (atr.count >= atr.period /\ atr.has_inputs)

C8_Witness ==
    /\ atr.is_initialized
    /\ was_reset
    /\ atr.count > atr.period
    /\ IsUpdate(last_op)

\* ---------------------------------------------------------------- C9
\* C9 (as stated): with value_floor > 0, value >= value_floor in every
\* reachable state, including right after construction and after reset().
C9_FlooredAlways ==
    F64Lt(F64(0), atr.value_floor) => F64Le(atr.value_floor, atr.value)

\* C9 (amended): with value_floor > 0, value >= value_floor in every
\* reachable state that has received an update since construction or the
\* last reset() (has_inputs = true); right after construction and right
\* after reset() value is 0.
C9_FlooredOnceHasInputs ==
    F64Lt(F64(0), atr.value_floor) =>
        /\ atr.has_inputs => F64Le(atr.value_floor, atr.value)
        /\ ~atr.has_inputs => atr.value = F64(0)

C9_Witness ==
    /\ F64Lt(F64(0), atr.value_floor)
    /\ atr.has_inputs
    /\ was_reset
    /\ atr.value = atr.value_floor
    /\ F64Lt(MaValue(atr._ma), atr.value_floor)

\* ---------------------------------------------------------------- C10
Phase(self) ==
    IF self.is_initialized THEN "Ready"
    ELSE IF self.has_inputs THEN "Warming"
    ELSE "Uninitialized"

\* The steps both readings of the lifecycle allow: Warming is has_inputs
\* with count < period; an update leaves Warming in Warming or moves it to
\* Ready, and leaves Ready in Ready; reset() moves every phase to
\* Uninitialized; ticks move nothing.
LifecycleCommon(p, op, q) ==
    /\ Phase(atr') = "Warming" => atr'.count < atr'.period
    /\ (IsUpdate(op) /\ p = "Warming") => q \in {"Warming", "Ready"}
    /\ (IsUpdate(op) /\ p = "Ready") => q = "Ready"
    /\ op = "reset" => q = "Uninitialized"
    /\ IsTick(op) => q = p

\* C10 (as stated): for period >= 1 the lifecycle takes only the steps
\* Uninitialized -> Warming, Warming -> Warming, Warming -> Ready and
\* Ready -> Ready by an update and Warming or Ready -> Uninitialized by
\* reset(); no update moves Uninitialized directly to Ready.
C10_LifecycleAsStated ==
    [][atr.period >= 1 =>
        /\ LifecycleCommon(Phase(atr), last_op', Phase(atr'))
        /\ (IsUpdate(last_op') /\ Phase(atr) = "Uninitialized")
              => Phase(atr') = "Warming"]_vars

\* C10 (amended): as stated, except that with period = 1 the first update
\* of an epoch moves Uninitialized directly to Ready (and Warming is never
\* entered); with period >= 2 it moves Uninitialized to Warming.
C10_Lifecycle ==
    [][atr.period >= 1 =>
        /\ LifecycleCommon(Phase(atr), last_op', Phase(atr'))
        /\ (IsUpdate(last_op') /\ Phase(atr) = "Uninitialized")
              => Phase(atr') = IF atr.period = 1 THEN "Ready" ELSE "Warming"]_vars

C10_Witness ==
    /\ atr.period = 1
    /\ calls = 1
    /\ was_reset
    /\ Phase(atr) = "Ready"
    /\ IsUpdate(last_op)

\* ---------------------------------------------------------------- C11
\* C11: count equals the number of update_raw / handle_bar calls made since
\* construction or the last reset(): each such call adds exactly 1, reset()
\* sets it to 0 and no other operation changes it.
C11_CountIsCallsSinceReset == atr.count = calls

C11_Witness ==
    /\ was_reset
    /\ atr.is_initialized
    /\ atr.count = 3
    /\ atr.period = 1
    /\ calls = 3

\* ---------------------------------------------------------------- C16
\* C16: after every update, with m the inner moving average's value after
\* that update, value = m if value_floor = 0 or m > value_floor, and
\* value = value_floor otherwise; for value_floor > 0, value = max(m,
\* value_floor).
C16_FloorPolicy ==
    IsUpdate(last_op) =>
        LET m == MaValue(atr._ma)
        IN  /\ atr.value = IF atr.value_floor = F64(0) \/ F64Lt(atr.value_floor, m)
                           THEN m ELSE atr.value_floor
            /\ F64Lt(F64(0), atr.value_floor) => atr.value = F64Max(m, atr.value_floor)

C16_Witness ==
    /\ IsUpdate(last_op)
    /\ F64Lt(F64(0), atr.value_floor)
    /\ F64Lt(atr.value_floor, MaValue(atr._ma))
    /\ atr.value = MaValue(atr._ma)
    /\ atr.count = 2

\* ---------------------------------------------------------------- C18
\* C18: has_inputs is true exactly when count > 0: false after construction
\* and after reset(), true from the first update of an epoch on, including
\* updates made after the indicator is initialized.
C18_HasInputsIffCounted == atr.has_inputs <=> atr.count > 0

C18_Witness ==
    /\ atr.has_inputs
    /\ atr.is_initialized
    /\ atr.count > atr.period
    /\ atr.period = 2
    /\ was_reset

\* ------------------------------------------------- what the average was fed
\* The scalar most recently passed to the moving average's update_raw, as
\* the (simple) moving average recorded it.
LastFed(self) == self._ma.inputs[Len(self._ma.inputs)]

\* ---------------------------------------------------------------- C12
\* The spec's sequence test: (10,8,9), (11,9,10), (12,10,11) with period 3,
\* use_previous, simple, no floor.
SequenceTest ==
    LET a0 == new(3, Some("Simple"), Some(TRUE), Some(F64(0))).self
        a1 == update_raw(a0, F64(10), F64(8), F64(9))
        a2 == update_raw(a1, F64(11), F64(9), F64(10))
        a3 == update_raw(a2, F64(12), F64(10), F64(11))
    IN  <<a1, a2, a3>>

\* C12: with use_previous, the scalar fed by the k-th update (k >= 2) of an
\* epoch is max(c, high) - min(low, c), c being the close passed to the
\* (k-1)-th update; on a fresh instance with ma_type simple, no floor and
\* period n, value after n updates is the mean of those n true ranges, and
\* the sequence test gives 2.0, initialized only after the third update.
C12_TrueRangeFromPreviousClose ==
    /\ (atr.use_previous /\ log.prev_close # <<>>) =>
          LET c == log.prev_close[1]
              u == log.last[1]
          IN  LastFed(atr) = F64Sub(F64Max(c, u.high), F64Min(u.low, c))
    /\ (/\ atr.use_previous
        /\ ~was_reset
        /\ atr.ma_type = "Simple"
        /\ atr.value_floor = F64(0)
        /\ atr.period >= 1
        /\ calls = atr.period) =>
          atr.value = F64Div(log.range_sum, F64(atr.period))
    /\ SequenceTest[3].value = F64(2)
    /\ SequenceTest[3].is_initialized
    /\ ~SequenceTest[2].is_initialized

C12_Witness ==
    /\ atr.use_previous
    /\ ~was_reset
    /\ atr.ma_type = "Simple"
    /\ atr.value_floor = F64(0)
    /\ atr.period = 2
    /\ calls = 2
    /\ log.prev_close # <<>>
    /\ LastFed(atr) # F64Sub(log.last[1].high, log.last[1].low)
    /\ atr.value = F64Div(log.range_sum, F64(2))

\* ---------------------------------------------------------------- C13
\* One step of the configured moving average applied to x.
OneMaStep(self, x) ==
    MaValue(MaUpdateRaw(MovingAverageFactoryCreate(self.ma_type, self.period), x))

\* C13 (as stated): with use_previous = false, for every ma_type, period
\* and value_floor, value after a single update on a fresh instance equals
\* one step of the configured moving average applied to high - low.
C13_SingleUpdateIsOneMaStep ==
    (~atr.use_previous /\ ~was_reset /\ calls = 1) =>
        atr.value = OneMaStep(atr, F64Sub(log.last[1].high, log.last[1].low))

\* C13 (amended): ... equals m, one step of the configured moving average
\* applied to high - low, when value_floor = 0 or m > value_floor, and
\* equals value_floor otherwise.
C13_SingleUpdateIsFlooredMaStep ==
    (~atr.use_previous /\ ~was_reset /\ calls = 1) =>
        LET m == OneMaStep(atr, F64Sub(log.last[1].high, log.last[1].low))
        IN  atr.value = IF atr.value_floor = F64(0) \/ F64Lt(atr.value_floor, m)
                        THEN m ELSE atr.value_floor

C13_Witness ==
    /\ ~atr.use_previous
    /\ ~was_reset
    /\ calls = 1
    /\ atr.ma_type = "Exponential"
    /\ F64Lt(F64(0), atr.value_floor)
    /\ atr.value = atr.value_floor
    /\ F64Lt(F64Sub(log.last[1].high, log.last[1].low), atr.value_floor)

\* ---------------------------------------------------------------- C14
\* C14 (as stated): with use_previous, the true range fed by the first
\* update of an epoch equals high - low for every (high, low, close).
C14_FirstRangeIsHighMinusLow ==
    (atr.use_previous /\ calls = 1) =>
        LastFed(atr) = F64Sub(log.last[1].high, log.last[1].low)

\* C14 (amended): with use_previous, the true range fed by the first update
\* of an epoch equals max(close, high) - min(low, close) of that update,
\* whatever closes were seen before a reset; it equals high - low whenever
\* low <= close <= high.
C14_FirstRangeUsesOwnClose ==
    (atr.use_previous /\ calls = 1) =>
        LET u == log.last[1]
        IN  /\ LastFed(atr) = F64Sub(F64Max(u.close, u.high), F64Min(u.low, u.close))
            /\ (F64Le(u.low, u.close) /\ F64Le(u.close, u.high))
                  => LastFed(atr) = F64Sub(u.high, u.low)

C14_Witness ==
    /\ atr.use_previous
    /\ was_reset
    /\ calls = 1
    /\ Len(atr._ma.inputs) = 2
    /\ F64Lt(log.last[1].high, log.last[1].close)
    /\ LastFed(atr) # F64Sub(log.last[1].high, log.last[1].low)

\* ---------------------------------------------------------------- C15
\* C15: when every update has high >= low, every true range fed to the
\* moving average is >= 0, for both use_previous settings, and value >= 0
\* in every reachable state.
C15_NonNegativeWhenOrdered ==
    /\ \A i \in 1..Len(atr._ma.inputs) : F64Le(F64(0), atr._ma.inputs[i])
    /\ F64Le(F64(0), atr.value)

C15_Witness ==
    /\ atr.use_previous
    /\ was_reset
    /\ atr.count = 2
    /\ atr.period = 2
    /\ atr.value_floor = F64(0)
    /\ F64Lt(F64(0), LastFed(atr))
    /\ F64Lt(F64(0), atr.value)
    /\ atr._ma.inputs[1] = F64(0)

\* ---------------------------------------------------------------- C17
\* C17: two instances that differ only in value_floor and receive the same
\* update and reset calls have, after every step, the same scalars fed to
\* the moving average, the same moving-average value, previous_close,
\* count, has_inputs and is_initialized; only value may differ.
C17_FloorLeavesSmoothingAlone ==
    /\ twin._ma = atr._ma
    /\ twin._previous_close = atr._previous_close
    /\ twin.count = atr.count
    /\ twin.has_inputs = atr.has_inputs
    /\ twin.is_initialized = atr.is_initialized

C17_Witness ==
    /\ twin.value_floor # atr.value_floor
    /\ twin.value # atr.value
    /\ IsUpdate(last_op)
    /\ was_reset
    /\ atr.count = 2
    /\ atr.use_previous

====
